---- MODULE Spec2Model ----
(***************************************************************************)
(* A model of src/hotspot/share/jvmci/jvmci.cpp: the static state of class *)
(* JVMCI, the lazily loaded JVMCI shared library, the one or two           *)
(* JVMCIRuntime objects, two-phase shutdown, the metadata bridge, the      *)
(* compilation tick and the two event logs with the trace printer.         *)
(*                                                                         *)
(* Pointers are naturals, NULL is 0.  A JVMCIRuntime is an index into the  *)
(* sequence runtimes (the heap of runtime objects in allocation order).    *)
(* fatal(), guarantee(), ShouldNotReachHere() and a call through a NULL    *)
(* pointer end the process: term leaves "running" and no action is enabled *)
(* any more.                                                               *)
(***************************************************************************)
EXTENDS Integers, Sequences, FiniteSets, TLC

\* ------------------------------------------------------------------ bounds
\* Threads that call get_shared_library.
NumLoaders == 2
\* Calls of shutdown() made by the controlling thread.
MaxShutdownCalls == 2
\* Largest value of the JVMCIEventLogLevel flag tried (above max_EventLog_level).
MaxLogLevel == 5
\* Largest value of the JVMCITraceLevel flag tried.
MaxTraceLevel == 2
\* Largest value of the LogEventsBufferEntries flag tried.
MaxBufferEntries == 2
\* Largest level passed to event(level, ...).
MaxEventLevel == 3
\* Lines of output (log entries and trace lines) after which no further
\* stand-alone event call is issued.
MaxEventOutput == 1
\* Compilation ticks after which compilation_tick is no longer called.
MaxTicks == 2
\* Calls of can_initialize_JVMCI.
MaxGateCalls == 3

\* ------------------------------------------------------- program constants
NULL == 0
\* jvmci.hpp: the highest event log level (event1 .. event4).
max_EventLog_level == 4

VARIABLES
  flags,                  \* the VM flags read by this file, fixed at start
  vm,                     \* what SystemDictionary and Universe report
  gate,                   \* the results of the can_initialize_JVMCI calls so far
  compiler_runtime,       \* JVMCI::_compiler_runtime
  java_runtime,           \* JVMCI::_java_runtime
  is_initialized,         \* JVMCI::_is_initialized
  shared_library_handle,  \* JVMCI::_shared_library_handle
  shared_library_path,    \* JVMCI::_shared_library_path
  in_shutdown,            \* JVMCI::_in_shutdown
  events,                 \* JVMCI::_events
  verbose_events,         \* JVMCI::_verbose_events
  runtimes,               \* the JVMCIRuntime objects, in allocation order
  JVMCI_lock,             \* owner of JVMCI_lock, NULL when free
  term,                   \* "running", or how the process ended
  tty,                    \* lines printed to tty by vtrace
  os,                     \* calls made to os::dll_locate_lib and os::dll_load
  ticks,                  \* compilation ticks of each JVMCICompileState
  ig,                     \* the thread in initialize_globals / initialize_compiler
  sd,                     \* the thread calling shutdown()
  gl,                     \* the threads calling get_shared_library
  ev,                     \* the thread calling event(level, ...)
  md,                     \* the thread calling metadata_do / do_unloading
  last                    \* the last completed call of an atomic operation

vars == <<flags, md, vm, gate, ev, compiler_runtime, java_runtime, is_initialized,
          shared_library_handle, shared_library_path, in_shutdown, events,
          verbose_events, runtimes, JVMCI_lock, term, tty, os, ticks, ig, sd,
          gl, last>>

\* ------------------------------------------------------------------- flags
UseJVMCINativeLibrary == flags.UseJVMCINativeLibrary
LogEvents == flags.LogEvents
JVMCIEventLogLevel == flags.JVMCIEventLogLevel
LogEventsBufferEntries == flags.LogEventsBufferEntries
JVMCITraceLevel == flags.JVMCITraceLevel
JVMCILibPath == flags.JVMCILibPath
JVMCILibDumpJNIConfig == flags.JVMCILibDumpJNIConfig

Running == term = "running"

\* --------------------------------------------------------------- event logs
\* A StringEventLog*: live is FALSE for NULL; cap is the ring buffer's length,
\* n the number of entries logv has appended to it.
NullLog == [live |-> FALSE, cap |-> 0, n |-> 0]
NewStringEventLog(count) == [live |-> TRUE, cap |-> count, n |-> 0]
Logv(log) == [log EXCEPT !.n = @ + 1]

\* initialize_globals, lines 108-112: the entry count of the verbose log.  With
\* LogEventsBufferEntries in its flag range the product stays inside an int.
\* VerboseCountLoop without the cap at max_EventLog_level.
RECURSIVE VerboseCountLoop_NoCap(_, _)
VerboseCountLoop_NoCap(i, count) ==
  IF i < JVMCIEventLogLevel
  THEN VerboseCountLoop_NoCap(i + 1, count * 10)
  ELSE count

RECURSIVE VerboseCountLoop(_, _)
VerboseCountLoop(i, count) ==
  IF i < JVMCIEventLogLevel /\ i < max_EventLog_level
  THEN VerboseCountLoop(i + 1, count * 10)
  ELSE count
VerboseCount == VerboseCountLoop(1, LogEventsBufferEntries)

\* VlogGate with > for >=.
VlogGate_Strict(level) == LogEvents /\ JVMCIEventLogLevel > level

\* vlog, line 185: the gate of the structured log.
VlogGate(level) == LogEvents /\ JVMCIEventLogLevel >= level
\* vlog, line 186: the channel a level selects.
VlogChannel(level) == IF level = 1 THEN events ELSE verbose_events

\* LOG_TRACE(level), lines 206-209, makes two calls, vlog and then vtrace;
\* other threads run between the two.  vlog itself loads the channel pointer
\* into a local (line 186) and tests the local afterwards (line 187);
\* initialize_globals takes no lock and may store the channel in between.

\* vlog, lines 185-186: what the local of line 186 holds.  "none" when the
\* gate is closed and the pointer is not loaded, "null" when the pointer
\* loaded is NULL, and the name of the channel otherwise.
VlogLoad(level) ==
  IF ~VlogGate(level) THEN "none"
  ELSE IF ~VlogChannel(level).live THEN "null"
  ELSE IF level = 1 THEN "events" ELSE "verbose"

\* A vlog without the guarantee of line 187.
VlogFails_Never(local) == FALSE

\* vlog, line 187: the guarantee fails on the pointer loaded at line 186.
VlogFails(local) == local = "null"
\* vtrace, line 194: the gate of the trace printer.
VtraceGate(level) == JVMCITraceLevel >= level

\* vlog, lines 187-190, on the pointer loaded at line 186.  A failed
\* guarantee ends the process before anything is appended.  A channel is
\* stored once, so a pointer that is not NULL is the channel.
VlogAppend(local) ==
  IF VlogFails(local)
  THEN /\ term' = "guarantee"
       /\ UNCHANGED <<events, verbose_events>>
  ELSE /\ term' = term
       /\ events' = IF local = "events" THEN Logv(events) ELSE events
       /\ verbose_events' = IF local = "verbose"
                            THEN Logv(verbose_events) ELSE verbose_events

\* The step of a caller that follows the load of line 186: the rest of vlog
\* when the gate was open, the vtrace of LOG_TRACE when vlog has returned.
AfterVlogLoad(local) == IF local = "none" THEN "trace" ELSE "log"

\* vtrace, lines 193-204.
Vtrace(level) == tty' = IF VtraceGate(level) THEN tty + 1 ELSE tty

\* What the vlog step and the vtrace step of one event call did, read off the
\* state before and after the step.
Logged == IF events'.n # events.n THEN "events"
          ELSE IF verbose_events'.n # verbose_events.n THEN "verbose"
          ELSE "none"
Traced == tty' # tty

\* initialize_globals has returned.
GlobalsDone == ig.pc \in {"globals_done", "compiler_done"}

\* The record of an atomic call: the operation, its argument, the objects it
\* touched in order, the log channel it appended to, whether it printed a
\* trace line, the value it returned, and whether it was made after
\* initialize_globals had returned.
Call(op, a, touched, logged, traced, ret) ==
  [op |-> op, a |-> a, touched |-> touched, logged |-> logged,
   traced |-> traced, ret |-> ret, late |-> GlobalsDone]
NoCall == [op |-> "none", a |-> 0, touched |-> <<>>, logged |-> "none",
           traced |-> FALSE, ret |-> 0, late |-> FALSE]

\* ------------------------------------------------------ initialize_globals
\* new JVMCIRuntime(id)
NewRuntime(id) == [id |-> id, shutdowns |-> 0, getCompiler |-> 0]

\* Lines 103-106: the coarse log.
IG_Events ==
  /\ Running /\ ig.pc = "start"
  /\ events' = IF LogEvents /\ JVMCIEventLogLevel > 0
               THEN NewStringEventLog(LogEventsBufferEntries) ELSE events
  /\ ig' = [ig EXCEPT !.pc = "verbose"]
  /\ UNCHANGED <<flags, md, vm, gate, ev, compiler_runtime, java_runtime, is_initialized,
                 shared_library_handle, shared_library_path, in_shutdown,
                 verbose_events, runtimes, JVMCI_lock, term, tty, os, ticks,
                 sd, gl, last>>

\* IG_Verbose constructing the verbose log from level 3 on.
IG_Verbose_AboveTwo ==
  /\ Running /\ ig.pc = "verbose"
  /\ verbose_events' =
       IF LogEvents /\ JVMCIEventLogLevel > 0 /\ JVMCIEventLogLevel > 2
       THEN NewStringEventLog(VerboseCount) ELSE verbose_events
  /\ ig' = [ig EXCEPT !.pc = "compiler"]
  /\ UNCHANGED <<flags, md, vm, gate, ev, compiler_runtime, java_runtime, is_initialized,
                 shared_library_handle, shared_library_path, in_shutdown,
                 events, runtimes, JVMCI_lock, term, tty, os, ticks, sd, gl,
                 last>>

\* Lines 107-116: the verbose log.
IG_Verbose ==
  /\ Running /\ ig.pc = "verbose"
  /\ verbose_events' =
       IF LogEvents /\ JVMCIEventLogLevel > 0 /\ JVMCIEventLogLevel > 1
       THEN NewStringEventLog(VerboseCount) ELSE verbose_events
  /\ ig' = [ig EXCEPT !.pc = "compiler"]
  /\ UNCHANGED <<flags, md, vm, gate, ev, compiler_runtime, java_runtime, is_initialized,
                 shared_library_handle, shared_library_path, in_shutdown,
                 events, runtimes, JVMCI_lock, term, tty, os, ticks, sd, gl,
                 last>>

\* Line 119, or the inner assignment of line 123: both allocate
\* JVMCIRuntime(0) and store it in _compiler_runtime.
IG_Compiler ==
  /\ Running /\ ig.pc = "compiler"
  /\ runtimes' = Append(runtimes, NewRuntime(0))
  /\ compiler_runtime' = Len(runtimes) + 1
  /\ ig' = [ig EXCEPT !.pc = "java", !.rt = Len(runtimes) + 1]
  /\ UNCHANGED <<flags, md, vm, gate, ev, java_runtime, is_initialized, shared_library_handle,
                 shared_library_path, in_shutdown, events, verbose_events,
                 JVMCI_lock, term, tty, os, ticks, sd, gl, last>>

\* IG_Java taking the two-runtime branch whatever the flag says.
IG_Java_AlwaysTwo ==
  /\ Running /\ ig.pc = "java"
  /\ runtimes' = Append(runtimes, NewRuntime(-1))
  /\ java_runtime' = Len(runtimes) + 1
  /\ ig' = [ig EXCEPT !.pc = "globals_done"]
  /\ UNCHANGED <<flags, md, vm, gate, ev, compiler_runtime, is_initialized,
                 shared_library_handle, shared_library_path, in_shutdown,
                 events, verbose_events, JVMCI_lock, term, tty, os, ticks, sd,
                 gl, last>>

\* Line 120 (a second runtime, JVMCIRuntime(-1)), or the outer assignment of
\* line 123 (the runtime just stored in _compiler_runtime).
IG_Java ==
  /\ Running /\ ig.pc = "java"
  /\ IF UseJVMCINativeLibrary
     THEN /\ runtimes' = Append(runtimes, NewRuntime(-1))
          /\ java_runtime' = Len(runtimes) + 1
     ELSE /\ runtimes' = runtimes
          /\ java_runtime' = ig.rt
  /\ ig' = [ig EXCEPT !.pc = "globals_done"]
  /\ UNCHANGED <<flags, md, vm, gate, ev, compiler_runtime, is_initialized,
                 shared_library_handle, shared_library_path, in_shutdown,
                 events, verbose_events, JVMCI_lock, term, tty, os, ticks, sd,
                 gl, last>>

initialize_globals == IG_Events \/ IG_Verbose \/ IG_Compiler \/ IG_Java

\* ----------------------------------------------------- initialize_compiler
\* JVMCIRuntime::call_getCompiler on runtime r.
CallGetCompiler(r) == [runtimes EXCEPT ![r].getCompiler = @ + 1]

\* initialize_compiler asking once more when call_getCompiler has failed.
initialize_compiler_Retry ==
  /\ Running /\ ig.pc = "globals_done"
  /\ IF JVMCILibDumpJNIConfig
     THEN /\ term' = "dumped"
          /\ UNCHANGED <<runtimes, ig>>
     ELSE /\ term' = term
          /\ \E failed \in BOOLEAN :
               /\ runtimes' = IF failed
                              THEN [runtimes EXCEPT
                                      ![compiler_runtime].getCompiler = @ + 2]
                              ELSE CallGetCompiler(compiler_runtime)
               /\ ig' = [ig EXCEPT !.pc = "compiler_done", !.exc = failed]
  /\ UNCHANGED <<flags, md, vm, gate, ev, compiler_runtime, java_runtime, is_initialized,
                 shared_library_handle, shared_library_path, in_shutdown,
                 events, verbose_events, JVMCI_lock, tty, os, ticks, sd, gl,
                 last>>

\* Lines 93-100.  With JVMCILibDumpJNIConfig the call dumps and never returns.
\* Otherwise the compiler runtime is asked for its compiler; CHECK hands a
\* pending exception (exc) to the caller.
initialize_compiler ==
  /\ Running /\ ig.pc = "globals_done"
  /\ IF JVMCILibDumpJNIConfig
     THEN /\ term' = "dumped"
          /\ UNCHANGED <<runtimes, ig>>
     ELSE /\ term' = term
          /\ runtimes' = CallGetCompiler(compiler_runtime)
          /\ \E failed \in BOOLEAN :
               ig' = [ig EXCEPT !.pc = "compiler_done", !.exc = failed]
  /\ UNCHANGED <<flags, md, vm, gate, ev, compiler_runtime, java_runtime, is_initialized,
                 shared_library_handle, shared_library_path, in_shutdown,
                 events, verbose_events, JVMCI_lock, tty, os, ticks, sd, gl,
                 last>>

\* ----------------------------------------------------------------- shutdown
\* The id of the thread that calls shutdown(); the loaders are 1..NumLoaders.
ShutdownThread == NumLoaders + 1

\* JVMCIRuntime::shutdown on runtime r.
RuntimeShutdown(r) == [runtimes EXCEPT ![r].shutdowns = @ + 1]

\* shutdown() is entered; the thread is about to take JVMCI_lock.  calls
\* counts the calls, late those entered after initialize_globals had returned,
\* shut lists the runtimes this call has shut down so far; java is the local
\* of line 171 and compiler the value of compiler_runtime() loaded at line 172.
SD_Call ==
  /\ Running /\ sd.pc = "idle" /\ sd.calls < MaxShutdownCalls
  /\ sd' = [sd EXCEPT !.pc = "lock", !.calls = @ + 1, !.log = "none",
                       !.java = NULL, !.compiler = NULL,
                       !.late = IF GlobalsDone THEN @ + 1 ELSE @,
                       !.shut = <<>>]
  /\ UNCHANGED <<flags, md, vm, gate, ev, compiler_runtime, java_runtime, is_initialized,
                 shared_library_handle, shared_library_path, in_shutdown,
                 events, verbose_events, runtimes, JVMCI_lock, term, tty, os,
                 ticks, ig, gl, last>>

\* Line 167: MutexLocker locker(JVMCI_lock).
SD_Lock ==
  /\ Running /\ sd.pc = "lock" /\ JVMCI_lock = NULL
  /\ JVMCI_lock' = ShutdownThread
  /\ sd' = [sd EXCEPT !.pc = "flag"]
  /\ UNCHANGED <<flags, md, vm, gate, ev, compiler_runtime, java_runtime, is_initialized,
                 shared_library_handle, shared_library_path, in_shutdown,
                 events, verbose_events, runtimes, term, tty, os, ticks, ig,
                 gl, last>>

\* SD_Flag flipping _in_shutdown, so that a repeated shutdown clears it.
SD_Flag_Toggle ==
  /\ Running /\ sd.pc = "flag"
  /\ in_shutdown' = ~in_shutdown
  /\ sd' = [sd EXCEPT !.pc = "event"]
  /\ UNCHANGED <<flags, md, vm, gate, ev, compiler_runtime, java_runtime, is_initialized,
                 shared_library_handle, shared_library_path, events,
                 verbose_events, runtimes, JVMCI_lock, term, tty, os, ticks,
                 ig, gl, last>>

\* Line 168.
SD_Flag ==
  /\ Running /\ sd.pc = "flag"
  /\ in_shutdown' = TRUE
  /\ sd' = [sd EXCEPT !.pc = "event"]
  /\ UNCHANGED <<flags, md, vm, gate, ev, compiler_runtime, java_runtime, is_initialized,
                 shared_library_handle, shared_library_path, events,
                 verbose_events, runtimes, JVMCI_lock, term, tty, os, ticks,
                 ig, gl, last>>

\* Line 169: JVMCI_event_1("shutting down JVMCI"); the vlog of LOG_TRACE up
\* to the load of line 186.
SD_Event ==
  /\ Running /\ sd.pc = "event"
  /\ sd' = [sd EXCEPT !.pc = AfterVlogLoad(VlogLoad(1)), !.log = VlogLoad(1)]
  /\ UNCHANGED <<flags, md, vm, gate, ev, compiler_runtime, java_runtime, is_initialized,
                 shared_library_handle, shared_library_path, in_shutdown,
                 events, verbose_events, runtimes, JVMCI_lock, term, tty, os,
                 ticks, ig, gl, last>>

\* Line 169, the rest of vlog (lines 187-190).
SD_Log ==
  /\ Running /\ sd.pc = "log"
  /\ VlogAppend(sd.log)
  /\ sd' = [sd EXCEPT !.pc = IF VlogFails(sd.log) THEN @ ELSE "trace"]
  /\ UNCHANGED <<flags, md, vm, gate, ev, compiler_runtime, java_runtime, is_initialized,
                 shared_library_handle, shared_library_path, in_shutdown,
                 runtimes, JVMCI_lock, tty, os, ticks, ig, gl, last>>

\* Line 169, the vtrace of LOG_TRACE.
SD_Trace ==
  /\ Running /\ sd.pc = "trace"
  /\ Vtrace(1)
  /\ sd' = [sd EXCEPT !.pc = "unlock"]
  /\ UNCHANGED <<flags, md, vm, gate, ev, compiler_runtime, java_runtime, is_initialized,
                 shared_library_handle, shared_library_path, in_shutdown,
                 events, verbose_events, runtimes, JVMCI_lock, term, os, ticks,
                 ig, gl, last>>

\* SD_Unlock with the locker's scope running to the end of shutdown().
SD_Unlock_Keep ==
  /\ Running /\ sd.pc = "unlock"
  /\ sd' = [sd EXCEPT !.pc = "read_java"]
  /\ UNCHANGED <<flags, md, vm, gate, ev, compiler_runtime, java_runtime, is_initialized,
                 shared_library_handle, shared_library_path, in_shutdown,
                 events, verbose_events, runtimes, JVMCI_lock, term, tty, os,
                 ticks, ig, gl, last>>

\* Line 170: the MutexLocker's scope ends.
SD_Unlock ==
  /\ Running /\ sd.pc = "unlock"
  /\ JVMCI_lock' = NULL
  /\ sd' = [sd EXCEPT !.pc = "read_java"]
  /\ UNCHANGED <<flags, md, vm, gate, ev, compiler_runtime, java_runtime, is_initialized,
                 shared_library_handle, shared_library_path, in_shutdown,
                 events, verbose_events, runtimes, term, tty, os, ticks, ig,
                 gl, last>>

\* Line 171.
SD_ReadJava ==
  /\ Running /\ sd.pc = "read_java"
  /\ sd' = [sd EXCEPT !.pc = "compare", !.java = java_runtime]
  /\ UNCHANGED <<flags, md, vm, gate, ev, compiler_runtime, java_runtime, is_initialized,
                 shared_library_handle, shared_library_path, in_shutdown,
                 events, verbose_events, runtimes, JVMCI_lock, term, tty, os,
                 ticks, ig, gl, last>>

\* ShutdownJavaFirst without the aliasing test.
ShutdownJavaFirst_Always(java, compiler) == TRUE

\* Line 172: must the java runtime be shut down on its own?
ShutdownJavaFirst(java, compiler) == java # compiler

SD_Compare ==
  /\ Running /\ sd.pc = "compare"
  /\ sd' = [sd EXCEPT !.pc = IF ShutdownJavaFirst(sd.java, compiler_runtime)
                               THEN "java" ELSE "compiler",
                       !.compiler = compiler_runtime]
  /\ UNCHANGED <<flags, md, vm, gate, ev, compiler_runtime, java_runtime, is_initialized,
                 shared_library_handle, shared_library_path, in_shutdown,
                 events, verbose_events, runtimes, JVMCI_lock, term, tty, os,
                 ticks, ig, gl, last>>

\* Line 173: java_runtime->shutdown().  Through a NULL pointer the call is
\* undefined: the process crashes, or the call returns having done nothing.
SD_JavaShutdown ==
  /\ Running /\ sd.pc = "java"
  /\ IF sd.java = NULL
     THEN /\ runtimes' = runtimes
          /\ \/ term' = "null_call" /\ sd' = [sd EXCEPT !.null_call = TRUE]
             \/ term' = term
                /\ sd' = [sd EXCEPT !.pc = "compiler", !.null_call = TRUE]
     ELSE /\ runtimes' = RuntimeShutdown(sd.java)
          /\ term' = term
          /\ sd' = [sd EXCEPT !.pc = "compiler", !.shut = Append(@, sd.java)]
  /\ UNCHANGED <<flags, md, vm, gate, ev, compiler_runtime, java_runtime, is_initialized,
                 shared_library_handle, shared_library_path, in_shutdown,
                 events, verbose_events, JVMCI_lock, tty, os, ticks, ig, gl,
                 last>>

\* Line 175 tests compiler_runtime(), a plain static that initialize_globals
\* may be assigning at that moment.  When line 172 found the two pointers
\* equal no call lies between the load of line 172 and the test, and a build
\* is free to test the value it loaded there (compared) instead of loading
\* the static again (fresh); after the call of line 173 it has to load again.
ShutdownCompilerReads(java, compared, fresh) ==
  IF java = compared THEN {compared, fresh} ELSE {fresh}

\* SD_Compiler with the aliasing test of metadata_do (line 144) added.
SD_Compiler_SkipAlias ==
  /\ Running /\ sd.pc = "compiler"
  /\ \E compiler \in ShutdownCompilerReads(sd.java, sd.compiler,
                                            compiler_runtime) :
       IF compiler # NULL /\ compiler # sd.java
       THEN /\ runtimes' = RuntimeShutdown(compiler)
            /\ sd' = [sd EXCEPT !.pc = "idle", !.shut = Append(@, compiler)]
       ELSE /\ runtimes' = runtimes
            /\ sd' = [sd EXCEPT !.pc = "idle"]
  /\ UNCHANGED <<flags, md, vm, gate, ev, compiler_runtime, java_runtime, is_initialized,
                 shared_library_handle, shared_library_path, in_shutdown,
                 events, verbose_events, JVMCI_lock, term, tty, os, ticks, ig,
                 gl, last>>

\* Lines 175-177, and shutdown() returns.  The pointer is assigned once, so
\* the call of line 176 goes to the runtime the test of line 175 saw.
SD_Compiler ==
  /\ Running /\ sd.pc = "compiler"
  /\ \E compiler \in ShutdownCompilerReads(sd.java, sd.compiler,
                                            compiler_runtime) :
       IF compiler # NULL
       THEN /\ runtimes' = RuntimeShutdown(compiler)
            /\ sd' = [sd EXCEPT !.pc = "idle", !.shut = Append(@, compiler)]
       ELSE /\ runtimes' = runtimes
            /\ sd' = [sd EXCEPT !.pc = "idle"]
  /\ UNCHANGED <<flags, md, vm, gate, ev, compiler_runtime, java_runtime, is_initialized,
                 shared_library_handle, shared_library_path, in_shutdown,
                 events, verbose_events, JVMCI_lock, term, tty, os, ticks, ig,
                 gl, last>>

shutdown == SD_Call \/ SD_Lock \/ SD_Flag \/ SD_Event \/ SD_Log \/ SD_Trace
            \/ SD_Unlock
            \/ SD_ReadJava \/ SD_Compare \/ SD_JavaShutdown \/ SD_Compiler

\* ------------------------------------------------------- get_shared_library
Loaders == 1 .. NumLoaders

\* The directory the library is looked up in (lines 70-78): JVMCILibPath when
\* set, Arguments::get_dll_dir() otherwise.  Directories and paths are
\* naturals; 1 is the value of JVMCILibPath, 2 is the VM's dll directory.
DllDir == 2
LibDir == IF JVMCILibPath # NULL THEN JVMCILibPath ELSE DllDir
\* os::dll_locate_lib: the path of the library in directory dir.
DllLocateLib(dir) == dir
\* os::dll_load: the handle of the library loaded from path.
DllLoad(path) == 10 + path
\* strdup
Strdup(path) == path

\* A caller enters get_shared_library(path, load).  A caller that asks for
\* the load takes JVMCI_lock first (the assert of line 65).
GL_Call(t) ==
  /\ Running /\ gl[t].pc = "idle"
  /\ \E load \in BOOLEAN :
       gl' = [gl EXCEPT ![t].load = load,
                        ![t].pc = IF load THEN "lock" ELSE "read_handle"]
  /\ UNCHANGED <<flags, md, vm, gate, ev, compiler_runtime, java_runtime, is_initialized,
                 shared_library_handle, shared_library_path, in_shutdown,
                 events, verbose_events, runtimes, JVMCI_lock, term, tty, os,
                 ticks, ig, sd, last>>

\* GL_Lock with a lock that excludes nobody.
GL_Lock_NoMutex(t) ==
  /\ Running /\ gl[t].pc = "lock"
  /\ JVMCI_lock' = t
  /\ gl' = [gl EXCEPT ![t].pc = "read_handle"]
  /\ UNCHANGED <<flags, md, vm, gate, ev, compiler_runtime, java_runtime, is_initialized,
                 shared_library_handle, shared_library_path, in_shutdown,
                 events, verbose_events, runtimes, term, tty, os, ticks, ig,
                 sd, last>>

\* The caller's MutexLocker locker(JVMCI_lock).
GL_Lock(t) ==
  /\ Running /\ gl[t].pc = "lock" /\ JVMCI_lock = NULL
  /\ JVMCI_lock' = t
  /\ gl' = [gl EXCEPT ![t].pc = "read_handle"]
  /\ UNCHANGED <<flags, md, vm, gate, ev, compiler_runtime, java_runtime, is_initialized,
                 shared_library_handle, shared_library_path, in_shutdown,
                 events, verbose_events, runtimes, term, tty, os, ticks, ig,
                 sd, last>>

\* A fast path for a present handle only.
FastPath_HandleOnly(sl_handle, load) == sl_handle # NULL

\* Line 61: the fast path is taken.
FastPath(sl_handle, load) == sl_handle # NULL \/ ~load

\* Lines 60-61 and 65-66.
GL_ReadHandle(t) ==
  /\ Running /\ gl[t].pc = "read_handle"
  /\ gl' = [gl EXCEPT ![t].sl_handle = shared_library_handle,
                      ![t].pc = IF FastPath(shared_library_handle, gl[t].load)
                                THEN "fast_return" ELSE "load"]
  /\ UNCHANGED <<flags, md, vm, gate, ev, compiler_runtime, java_runtime, is_initialized,
                 shared_library_handle, shared_library_path, in_shutdown,
                 events, verbose_events, runtimes, JVMCI_lock, term, tty, os,
                 ticks, ig, sd, last>>

\* Lines 62-63.
GL_FastReturn(t) ==
  /\ Running /\ gl[t].pc = "fast_return"
  /\ gl' = [gl EXCEPT ![t].ret_path = shared_library_path,
                      ![t].ret_handle = gl[t].sl_handle,
                      ![t].pc = "return"]
  /\ UNCHANGED <<flags, md, vm, gate, ev, compiler_runtime, java_runtime, is_initialized,
                 shared_library_handle, shared_library_path, in_shutdown,
                 events, verbose_events, runtimes, JVMCI_lock, term, tty, os,
                 ticks, ig, sd, last>>

\* Line 67: the handle is looked at again under the lock.
MustLoad == shared_library_handle = NULL

\* Lines 67-78: the handle is looked at again and the library is located;
\* when os::dll_locate_lib fails, fatal() ends the process.
GL_Locate(t) ==
  /\ Running /\ gl[t].pc = "load"
  /\ IF MustLoad
     THEN \E located \in BOOLEAN :
            /\ os' = [os EXCEPT !.locates = @ + 1]
            /\ IF ~located
               THEN term' = "fatal_locate" /\ gl' = gl
               ELSE /\ term' = term
                    /\ gl' = [gl EXCEPT ![t].path = DllLocateLib(LibDir),
                                        ![t].pc = "dll_load"]
     ELSE /\ gl' = [gl EXCEPT ![t].pc = "slow_return"]
          /\ UNCHANGED <<os, term>>
  /\ UNCHANGED <<flags, md, vm, gate, ev, compiler_runtime, java_runtime, is_initialized,
                 shared_library_handle, shared_library_path, in_shutdown,
                 events, verbose_events, runtimes, JVMCI_lock, tty, ticks, ig,
                 sd, last>>

\* GL_Load carrying on after a failure: the call returns what there is.
GL_Load_Degraded(t) ==
  /\ Running /\ gl[t].pc = "dll_load"
  /\ os' = [os EXCEPT !.loads = @ + 1]
  /\ \E loaded \in BOOLEAN :
       IF ~loaded
       THEN gl' = [gl EXCEPT ![t].pc = "slow_return"]
       ELSE gl' = [gl EXCEPT ![t].handle = DllLoad(gl[t].path),
                             ![t].pc = "store_handle"]
  /\ UNCHANGED <<flags, md, vm, gate, ev, compiler_runtime, java_runtime, is_initialized,
                 shared_library_handle, shared_library_path, in_shutdown,
                 events, verbose_events, runtimes, JVMCI_lock, term, tty,
                 ticks, ig, sd, last>>

\* Lines 80-83: the library is loaded from the path located; when
\* os::dll_load fails, fatal() ends the process.
GL_Load(t) ==
  /\ Running /\ gl[t].pc = "dll_load"
  /\ os' = [os EXCEPT !.loads = @ + 1]
  /\ \E loaded \in BOOLEAN :
       IF ~loaded
       THEN term' = "fatal_load" /\ gl' = gl
       ELSE /\ term' = term
            /\ gl' = [gl EXCEPT ![t].handle = DllLoad(gl[t].path),
                                ![t].pc = "store_handle"]
  /\ UNCHANGED <<flags, md, vm, gate, ev, compiler_runtime, java_runtime, is_initialized,
                 shared_library_handle, shared_library_path, in_shutdown,
                 events, verbose_events, runtimes, JVMCI_lock, tty, ticks, ig,
                 sd, last>>

\* Line 84.
GL_StoreHandle(t) ==
  /\ Running /\ gl[t].pc = "store_handle"
  /\ shared_library_handle' = gl[t].handle
  /\ gl' = [gl EXCEPT ![t].pc = "store_path"]
  /\ UNCHANGED <<flags, md, vm, gate, ev, compiler_runtime, java_runtime, is_initialized,
                 shared_library_path, in_shutdown, events, verbose_events,
                 runtimes, JVMCI_lock, term, tty, os, ticks, ig, sd, last>>

\* Line 85.
GL_StorePath(t) ==
  /\ Running /\ gl[t].pc = "store_path"
  /\ shared_library_path' = Strdup(gl[t].path)
  /\ gl' = [gl EXCEPT ![t].pc = "event"]
  /\ UNCHANGED <<flags, md, vm, gate, ev, compiler_runtime, java_runtime, is_initialized,
                 shared_library_handle, in_shutdown, events, verbose_events,
                 runtimes, JVMCI_lock, term, tty, os, ticks, ig, sd, last>>

\* Line 87: JVMCI_event_1("loaded JVMCI shared library from %s", path); the
\* vlog of LOG_TRACE up to the load of line 186.
GL_Event(t) ==
  /\ Running /\ gl[t].pc = "event"
  /\ gl' = [gl EXCEPT ![t].pc = AfterVlogLoad(VlogLoad(1)),
                      ![t].log = VlogLoad(1)]
  /\ UNCHANGED <<flags, md, vm, gate, ev, compiler_runtime, java_runtime, is_initialized,
                 shared_library_handle, shared_library_path, in_shutdown,
                 events, verbose_events, runtimes, JVMCI_lock, term, tty, os,
                 ticks, ig, sd, last>>

\* Line 87, the rest of vlog (lines 187-190).
GL_Log(t) ==
  /\ Running /\ gl[t].pc = "log"
  /\ VlogAppend(gl[t].log)
  /\ gl' = [gl EXCEPT ![t].pc = IF VlogFails(gl[t].log) THEN @ ELSE "trace"]
  /\ UNCHANGED <<flags, md, vm, gate, ev, compiler_runtime, java_runtime, is_initialized,
                 shared_library_handle, shared_library_path, in_shutdown,
                 runtimes, JVMCI_lock, tty, os, ticks, ig, sd, last>>

\* Line 87, the vtrace of LOG_TRACE.
GL_Trace(t) ==
  /\ Running /\ gl[t].pc = "trace"
  /\ Vtrace(1)
  /\ gl' = [gl EXCEPT ![t].pc = "slow_return"]
  /\ UNCHANGED <<flags, md, vm, gate, ev, compiler_runtime, java_runtime, is_initialized,
                 shared_library_handle, shared_library_path, in_shutdown,
                 events, verbose_events, runtimes, JVMCI_lock, term, os, ticks,
                 ig, sd, last>>

\* Lines 89-90.
GL_SlowReturn(t) ==
  /\ Running /\ gl[t].pc = "slow_return"
  /\ gl' = [gl EXCEPT ![t].ret_path = shared_library_path,
                      ![t].ret_handle = shared_library_handle,
                      ![t].pc = "return"]
  /\ UNCHANGED <<flags, md, vm, gate, ev, compiler_runtime, java_runtime, is_initialized,
                 shared_library_handle, shared_library_path, in_shutdown,
                 events, verbose_events, runtimes, JVMCI_lock, term, tty, os,
                 ticks, ig, sd, last>>

\* The call has returned; a caller that took JVMCI_lock releases it.
GL_Return(t) ==
  /\ Running /\ gl[t].pc = "return"
  /\ JVMCI_lock' = IF JVMCI_lock = t THEN NULL ELSE JVMCI_lock
  /\ gl' = [gl EXCEPT ![t].pc = "done"]
  /\ UNCHANGED <<flags, md, vm, gate, ev, compiler_runtime, java_runtime, is_initialized,
                 shared_library_handle, shared_library_path, in_shutdown,
                 events, verbose_events, runtimes, term, tty, os, ticks, ig,
                 sd, last>>

get_shared_library(t) ==
  \/ GL_Call(t) \/ GL_Lock(t) \/ GL_ReadHandle(t) \/ GL_FastReturn(t)
  \/ GL_Locate(t) \/ GL_Load(t) \/ GL_StoreHandle(t) \/ GL_StorePath(t)
  \/ GL_Event(t) \/ GL_Log(t) \/ GL_Trace(t) \/ GL_SlowReturn(t)
  \/ GL_Return(t)

\* ---------------------------------------------------------- metadata bridge
\* metadata_do and do_unloading read _java_runtime, call into its handle
\* table, and then read _compiler_runtime and _java_runtime again; they take
\* no lock, so initialize_globals may assign either pointer in between.  Each
\* pointer is assigned once, so the reads of one if-statement and of the call
\* in its body see the same values and are one step.  md.java is the value
\* of _java_runtime the first if-statement loaded.

\* The values of _java_runtime the second if-statement (lines 144, 154) may
\* compare with.  The statics are plain: when the first if-statement found
\* _java_runtime NULL it made no call, and a build is free to compare with
\* the value it loaded there (first) instead of loading the static again
\* (fresh); after the call of line 142 or 152 it has to load again.
BridgeJavaReads(first, fresh) ==
  IF first = NULL THEN {first, fresh} ELSE {fresh}

\* MetadataDoCompiler without the aliasing test of line 144.
MetadataDoCompiler_NoAliasCheck(compiler, java) ==
  IF compiler # NULL THEN <<compiler>> ELSE <<>>

\* Lines 141-143: the runtime whose _metadata_handles metadata_do(f) is
\* called on first, if any.
MetadataDoJava(java) == IF java # NULL THEN <<java>> ELSE <<>>

\* Lines 144-146: the runtime whose _metadata_handles metadata_do(f) is
\* called on second, if any.
MetadataDoCompiler(compiler, java) ==
  IF compiler # NULL /\ compiler # java THEN <<compiler>> ELSE <<>>

\* Lines 151-153.
DoUnloadingJava(java) == IF java # NULL THEN <<java>> ELSE <<>>

\* Lines 154-156.
DoUnloadingCompiler(compiler, java) ==
  IF compiler # NULL /\ compiler # java THEN <<compiler>> ELSE <<>>

BoolArg(b) == IF b THEN 1 ELSE 0

\* metadata_do is entered and runs lines 141-143.
MD_Java ==
  /\ Running /\ md.pc = "idle"
  /\ md' = [pc |-> "compiler", op |-> "metadata_do", a |-> 0,
            java |-> java_runtime,
            touched |-> MetadataDoJava(java_runtime), late |-> GlobalsDone]
  /\ UNCHANGED <<flags, vm, gate, ev, compiler_runtime, java_runtime,
                 is_initialized, shared_library_handle, shared_library_path,
                 in_shutdown, events, verbose_events, runtimes, JVMCI_lock,
                 term, tty, os, ticks, ig, sd, gl, last>>

\* Lines 144-147, and metadata_do returns.
MD_Compiler ==
  /\ Running /\ md.pc = "compiler" /\ md.op = "metadata_do"
  /\ \E java \in BridgeJavaReads(md.java, java_runtime) :
       LET touched == md.touched
                        \o MetadataDoCompiler(compiler_runtime, java) IN
         /\ md' = [md EXCEPT !.pc = "idle", !.touched = touched]
         /\ last' = [Call("metadata_do", 0, touched, "none", FALSE, 0)
                       EXCEPT !.late = md.late]
  /\ UNCHANGED <<flags, vm, gate, ev, compiler_runtime, java_runtime,
                 is_initialized, shared_library_handle, shared_library_path,
                 in_shutdown, events, verbose_events, runtimes, JVMCI_lock,
                 term, tty, os, ticks, ig, sd, gl>>

metadata_do == MD_Java \/ MD_Compiler

\* do_unloading(unloading_occurred) is entered and runs lines 150-153; with
\* unloading_occurred false it returns at once.
DU_Java ==
  /\ Running /\ md.pc = "idle"
  /\ \E unloading_occurred \in BOOLEAN :
       IF unloading_occurred
       THEN /\ md' = [pc |-> "compiler", op |-> "do_unloading", a |-> 1,
                      java |-> java_runtime,
                      touched |-> DoUnloadingJava(java_runtime),
                      late |-> GlobalsDone]
            /\ last' = last
       ELSE /\ md' = [pc |-> "idle", op |-> "do_unloading", a |-> 0,
                      java |-> NULL, touched |-> <<>>, late |-> GlobalsDone]
            /\ last' = Call("do_unloading", BoolArg(unloading_occurred), <<>>,
                            "none", FALSE, 0)
  /\ UNCHANGED <<flags, vm, gate, ev, compiler_runtime, java_runtime,
                 is_initialized, shared_library_handle, shared_library_path,
                 in_shutdown, events, verbose_events, runtimes, JVMCI_lock,
                 term, tty, os, ticks, ig, sd, gl>>

\* Lines 154-158, and do_unloading(true) returns.
DU_Compiler ==
  /\ Running /\ md.pc = "compiler" /\ md.op = "do_unloading"
  /\ \E java \in BridgeJavaReads(md.java, java_runtime) :
       LET touched == md.touched
                        \o DoUnloadingCompiler(compiler_runtime, java) IN
         /\ md' = [md EXCEPT !.pc = "idle", !.touched = touched]
         /\ last' = [Call("do_unloading", md.a, touched, "none", FALSE, 0)
                       EXCEPT !.late = md.late]
  /\ UNCHANGED <<flags, vm, gate, ev, compiler_runtime, java_runtime,
                 is_initialized, shared_library_handle, shared_library_path,
                 in_shutdown, events, verbose_events, runtimes, JVMCI_lock,
                 term, tty, os, ticks, ig, sd, gl>>

do_unloading == DU_Java \/ DU_Compiler

\* --------------------------------------------------------- compilation_tick
\* The JVMCICompileState objects, and the JavaThreads compilation_tick is
\* called with: thread 1 is no compiler thread, thread 2 a compiler thread
\* without a task, thread 3 a compiler thread whose task has no blocking
\* compile state, thread 3 + s a compiler thread whose task blocks on state s.
CompileStates == {1, 2}
JavaThreads == 1 .. (3 + Cardinality(CompileStates))
is_Compiler_thread(thread) == thread >= 2
\* CompilerThread::task
TaskOf(thread) == IF thread >= 3 THEN thread - 2 ELSE NULL
\* CompileTask::blocking_jvmci_compile_state
BlockingStateOf(task) == IF task >= 2 THEN task - 1 ELSE NULL

\* TickedState counting per compiler thread instead of per bound task.
TickedState_AnyCompiler(thread) ==
  IF is_Compiler_thread(thread) THEN 1 ELSE NULL

\* Lines 128-136: the compile state whose ticks are incremented, or NULL.
TickedState(thread) ==
  IF is_Compiler_thread(thread)
  THEN IF TaskOf(thread) # NULL
       THEN BlockingStateOf(TaskOf(thread))
       ELSE NULL
  ELSE NULL

\* JVMCICompileState::inc_compilation_ticks
IncCompilationTicks(state) == [ticks EXCEPT ![state] = @ + 1]

\* Line 137: the value returned.
TickResult(thread) == thread

RECURSIVE SumTicks(_)
SumTicks(n) == IF n = 0 THEN 0 ELSE ticks[n] + SumTicks(n - 1)
TotalTicks == SumTicks(Len(ticks))

compilation_tick ==
  /\ Running /\ TotalTicks < MaxTicks
  /\ \E thread \in JavaThreads :
       /\ ticks' = IF TickedState(thread) # NULL
                   THEN IncCompilationTicks(TickedState(thread)) ELSE ticks
       /\ last' = Call("compilation_tick", thread,
                       [s \in 1 .. Len(ticks) |-> ticks'[s] - ticks[s]],
                       "none", FALSE, TickResult(thread))
  /\ UNCHANGED <<flags, md, vm, gate, ev, compiler_runtime, java_runtime, is_initialized,
                 shared_library_handle, shared_library_path, in_shutdown,
                 events, verbose_events, runtimes, JVMCI_lock, term, tty, os,
                 ig, sd, gl>>

\* -------------------------------------------------------------------- event
EventOutput == events.n + verbose_events.n + tty

\* Lines 211-215: event(level, ...), event1 .. event4; the vlog of LOG_TRACE
\* (line 207) up to the load of line 186.
EV_Vlog ==
  /\ Running /\ ev.pc = "idle" /\ EventOutput < MaxEventOutput
  /\ \E level \in 1 .. MaxEventLevel :
       ev' = [pc |-> AfterVlogLoad(VlogLoad(level)), level |-> level,
              log |-> VlogLoad(level), logged |-> "none",
              late |-> GlobalsDone]
  /\ UNCHANGED <<flags, md, vm, gate, compiler_runtime, java_runtime,
                 is_initialized, shared_library_handle, shared_library_path,
                 in_shutdown, events, verbose_events, runtimes, JVMCI_lock,
                 term, tty, os, ticks, ig, sd, gl, last>>

\* The rest of vlog (lines 187-190).  When the guarantee fails the call does
\* not return; last then records the attempt.
EV_Log ==
  /\ Running /\ ev.pc = "log"
  /\ VlogAppend(ev.log)
  /\ ev' = IF VlogFails(ev.log) THEN ev
           ELSE [ev EXCEPT !.pc = "trace", !.logged = Logged]
  /\ last' = IF VlogFails(ev.log)
             THEN [Call("event", ev.level, <<>>, "none", FALSE, 0)
                     EXCEPT !.late = ev.late]
             ELSE last
  /\ UNCHANGED <<flags, md, vm, gate, compiler_runtime, java_runtime,
                 is_initialized, shared_library_handle, shared_library_path,
                 in_shutdown, runtimes, JVMCI_lock, tty, os, ticks, ig, sd, gl>>

\* The vtrace of LOG_TRACE (line 208), and the call returns.  The record of
\* the call says whether it was entered after initialize_globals had returned.
EV_Vtrace ==
  /\ Running /\ ev.pc = "trace"
  /\ Vtrace(ev.level)
  /\ ev' = [ev EXCEPT !.pc = "idle"]
  /\ last' = [Call("event", ev.level, <<>>, ev.logged, Traced, 0)
                EXCEPT !.late = ev.late]
  /\ UNCHANGED <<flags, md, vm, gate, compiler_runtime, java_runtime,
                 is_initialized, shared_library_handle, shared_library_path,
                 in_shutdown, events, verbose_events, runtimes, JVMCI_lock,
                 term, os, ticks, ig, sd, gl>>

event == EV_Vlog \/ EV_Log \/ EV_Vtrace

\* ---------------------------------------------------------- lifecycle flags
\* Lines 180-182: in_shutdown() returns the flag.
in_shutdown_call ==
  /\ Running
  /\ last' = Call("in_shutdown", 0, <<>>, "none", FALSE, BoolArg(in_shutdown))
  /\ UNCHANGED <<flags, md, vm, gate, ev, compiler_runtime, java_runtime, is_initialized,
                 shared_library_handle, shared_library_path, in_shutdown,
                 events, verbose_events, runtimes, JVMCI_lock, term, tty, os,
                 ticks, ig, sd, gl>>

\* Lines 160-162: is_compiler_initialized() returns the flag.
is_compiler_initialized ==
  /\ Running
  /\ last' = Call("is_compiler_initialized", 0, <<>>, "none", FALSE,
                  BoolArg(is_initialized))
  /\ UNCHANGED <<flags, md, vm, gate, ev, compiler_runtime, java_runtime, is_initialized,
                 shared_library_handle, shared_library_path, in_shutdown,
                 events, verbose_events, runtimes, JVMCI_lock, term, tty, os,
                 ticks, ig, sd, gl>>

\* _is_initialized (line 39) is a static of the class that no function of this
\* file writes; the compiler sets it once its backend object exists, which is
\* the Compiler-Ready state that follows a successful initialize_compiler.
compiler_ready ==
  /\ Running /\ ig.pc = "compiler_done" /\ ~ig.exc /\ ~is_initialized
  /\ is_initialized' = TRUE
  /\ UNCHANGED <<flags, md, vm, gate, ev, compiler_runtime, java_runtime,
                 shared_library_handle, shared_library_path, in_shutdown,
                 events, verbose_events, runtimes, JVMCI_lock, term, tty, os,
                 ticks, ig, sd, gl, last>>

\* ------------------------------------------------------ can_initialize_JVMCI
\* The start-up of the virtual machine, outside this file: the module system
\* completes its initialization phase, then the system class loader is
\* created; neither is undone.
module_phase ==
  /\ Running /\ ~vm.module_initialized
  /\ vm' = [vm EXCEPT !.module_initialized = TRUE]
  /\ UNCHANGED <<flags, md, gate, ev, compiler_runtime, java_runtime, is_initialized,
                 shared_library_handle, shared_library_path, in_shutdown,
                 events, verbose_events, runtimes, JVMCI_lock, term, tty, os,
                 ticks, ig, sd, gl, last>>

system_loader_created ==
  /\ Running /\ vm.module_initialized /\ vm.java_system_loader = NULL
  /\ vm' = [vm EXCEPT !.java_system_loader = 1]
  /\ UNCHANGED <<flags, md, gate, ev, compiler_runtime, java_runtime, is_initialized,
                 shared_library_handle, shared_library_path, in_shutdown,
                 events, verbose_events, runtimes, JVMCI_lock, term, tty, os,
                 ticks, ig, sd, gl, last>>

\* The first result is kept and handed out again.
CanInitialize_Cached(loader, results) ==
  IF results # <<>> THEN results[1] = 1 ELSE loader # NULL

\* Lines 52-56: the value returned, from what
\* SystemDictionary::java_system_loader() returns now.
CanInitialize(loader, results) == loader # NULL

\* Lines 47-57.  The assert of line 55 is compiled into debug builds only: with
\* a system loader and no module initialization a debug build stops there and
\* a product build returns true.
can_initialize_JVMCI ==
  /\ Running /\ Len(gate) < MaxGateCalls
  /\ LET ret == CanInitialize(vm.java_system_loader, gate) IN
       IF ret /\ ~vm.module_initialized
       THEN \/ /\ term' = "assert"
               /\ UNCHANGED <<gate, last>>
            \/ /\ gate' = Append(gate, BoolArg(ret))
               /\ last' = Call("can_initialize_JVMCI", 0, <<>>, "none", FALSE,
                               BoolArg(ret))
               /\ UNCHANGED term
       ELSE /\ gate' = Append(gate, BoolArg(ret))
            /\ last' = Call("can_initialize_JVMCI", 0, <<>>, "none", FALSE,
                            BoolArg(ret))
            /\ UNCHANGED term
  /\ UNCHANGED <<flags, md, vm, ev, compiler_runtime, java_runtime, is_initialized,
                 shared_library_handle, shared_library_path, in_shutdown,
                 events, verbose_events, runtimes, JVMCI_lock, tty, os,
                 ticks, ig, sd, gl>>

\* ------------------------------------------------------------ specification
\* The values of the flags tried.
FlagValues ==
  [UseJVMCINativeLibrary : BOOLEAN,
   LogEvents : BOOLEAN,
   JVMCIEventLogLevel : 0 .. MaxLogLevel,
   LogEventsBufferEntries : 1 .. MaxBufferEntries,
   JVMCITraceLevel : 0 .. MaxTraceLevel,
   JVMCILibPath : {NULL, 1},
   JVMCILibDumpJNIConfig : BOOLEAN]

\* Lines 36-43: the static state before any call.
InitWith(F) ==
  /\ flags \in F
  /\ vm = [java_system_loader |-> NULL, module_initialized |-> FALSE]
  /\ gate = <<>>
  /\ compiler_runtime = NULL
  /\ java_runtime = NULL
  /\ is_initialized = FALSE
  /\ shared_library_handle = NULL
  /\ shared_library_path = NULL
  /\ in_shutdown = FALSE
  /\ events = NullLog
  /\ verbose_events = NullLog
  /\ runtimes = <<>>
  /\ JVMCI_lock = NULL
  /\ term = "running"
  /\ tty = 0
  /\ os = [locates |-> 0, loads |-> 0]
  /\ ticks = [s \in 1 .. Cardinality(CompileStates) |-> 0]
  /\ ig = [pc |-> "start", rt |-> NULL, exc |-> FALSE]
  /\ sd = [pc |-> "idle", calls |-> 0, log |-> "none", java |-> NULL,
           compiler |-> NULL, late |-> 0, shut |-> <<>>,
           null_call |-> FALSE]
  /\ gl = [t \in Loaders |->
            [pc |-> "idle", load |-> FALSE, sl_handle |-> NULL, path |-> NULL,
             handle |-> NULL, log |-> "none", ret_handle |-> NULL,
             ret_path |-> NULL]]
  /\ ev = [pc |-> "idle", level |-> 0, log |-> "none", logged |-> "none",
           late |-> FALSE]
  /\ md = [pc |-> "idle", op |-> "none", a |-> 0, java |-> NULL,
           touched |-> <<>>,
           late |-> FALSE]
  /\ last = NoCall

Init == InitWith(FlagValues)

\* The whole system: every operation, by any thread, at any time.
Next ==
  \/ initialize_globals
  \/ initialize_compiler
  \/ shutdown
  \/ \E t \in Loaders : get_shared_library(t)
  \/ metadata_do
  \/ do_unloading
  \/ compilation_tick
  \/ event
  \/ in_shutdown_call
  \/ is_compiler_initialized
  \/ compiler_ready
  \/ module_phase
  \/ system_loader_created
  \/ can_initialize_JVMCI

Spec == Init /\ [][Next]_vars

\* The specifications below run a part of the operations each, with the flags
\* that none of these operations reads held at one value.

\* The shared library: initialize_globals on one thread, NumLoaders threads in
\* get_shared_library.  The library is loaded in native-library mode; a
\* level-1 event only reads whether JVMCIEventLogLevel and JVMCITraceLevel
\* reach 1.
FlagsLoad ==
  {f \in FlagValues : /\ f.UseJVMCINativeLibrary
                      /\ ~f.JVMCILibDumpJNIConfig
                      /\ f.JVMCIEventLogLevel \in {0, 1}
                      /\ f.JVMCITraceLevel \in {0, 1}
                      /\ f.LogEventsBufferEntries = 1}
NextLoad == initialize_globals \/ \E t \in Loaders : get_shared_library(t)
SpecLoad == InitWith(FlagsLoad) /\ [][NextLoad]_vars

\* The life cycle: initialize_globals and initialize_compiler on one thread,
\* shutdown() on another, the metadata bridge on a third.
FlagsLife ==
  {f \in FlagValues : /\ f.JVMCILibPath = NULL
                      /\ f.JVMCIEventLogLevel \in {0, 1, 2}
                      /\ f.JVMCITraceLevel \in {0, 1}
                      /\ f.LogEventsBufferEntries = 1}
NextLife == initialize_globals \/ initialize_compiler \/ shutdown
            \/ metadata_do \/ do_unloading
SpecLife == InitWith(FlagsLife) /\ [][NextLife]_vars

\* The event logs: initialize_globals on one thread, event calls on another,
\* under every value of the logging flags.
FlagsLog ==
  {f \in FlagValues : /\ f.JVMCILibPath = NULL
                      /\ ~f.JVMCILibDumpJNIConfig}
NextLog == initialize_globals \/ event
SpecLog == InitWith(FlagsLog) /\ [][NextLog]_vars

\* The lifecycle flags: the life cycle with a reader of each flag.
NextFlags ==
  \/ initialize_globals
  \/ initialize_compiler
  \/ shutdown
  \/ compiler_ready
  \/ in_shutdown_call
  \/ is_compiler_initialized
SpecFlags == InitWith(FlagsLife) /\ [][NextFlags]_vars

\* The gate: the virtual machine starts up while the gate is asked, and
\* initialize_globals runs at any time.
NextGate ==
  \/ module_phase
  \/ system_loader_created
  \/ can_initialize_JVMCI
  \/ initialize_globals
SpecGate == InitWith(FlagsLife) /\ [][NextGate]_vars

\* The lock: the loaders and the shutdown thread contend for JVMCI_lock
\* while initialize_globals runs.  A thread that has entered a call is
\* scheduled again as long as it can take a step: every step of a call but
\* its entry is weakly fair, per thread.  The number of calls is bounded, so
\* a thread waiting for the lock finds it free for good once the others have
\* returned.
FlagsFair ==
  {f \in FlagValues : /\ f.UseJVMCINativeLibrary
                      /\ ~f.JVMCILibDumpJNIConfig
                      /\ f.JVMCILibPath = NULL
                      /\ f.JVMCIEventLogLevel \in {0, 1}
                      /\ f.JVMCITraceLevel = 0
                      /\ f.LogEventsBufferEntries = 1}
ShutdownSteps ==
  \/ SD_Lock \/ SD_Flag \/ SD_Event \/ SD_Log \/ SD_Trace \/ SD_Unlock
  \/ SD_ReadJava \/ SD_Compare \/ SD_JavaShutdown \/ SD_Compiler
LoaderSteps(t) ==
  \/ GL_Lock(t) \/ GL_ReadHandle(t) \/ GL_FastReturn(t)
  \/ GL_Locate(t) \/ GL_Load(t) \/ GL_StoreHandle(t) \/ GL_StorePath(t)
  \/ GL_Event(t) \/ GL_Log(t) \/ GL_Trace(t) \/ GL_SlowReturn(t)
  \/ GL_Return(t)
NextFair ==
  \/ initialize_globals
  \/ shutdown
  \/ \E t \in Loaders : get_shared_library(t)
SpecFair ==
  /\ InitWith(FlagsFair) /\ [][NextFair]_vars
  /\ WF_vars(ShutdownSteps)
  /\ \A t \in Loaders : WF_vars(LoaderSteps(t))

\* The compilation tick: compiler threads tick while the life cycle runs.
NextTick == initialize_globals \/ initialize_compiler \/ compilation_tick
SpecTick == InitWith(FlagsLife) /\ [][NextTick]_vars

\* ------------------------------------------------------------------- claims
\* A call of get_shared_library by loader t has returned.
Returned(t) == gl[t].pc \in {"return", "done"}

\* C1: with every caller of get_shared_library(path, true) holding JVMCI_lock,
\* os::dll_load is called at most once in a run, and exactly once when such
\* a call has returned; a thread is about to assign the handle only while it
\* is NULL, and a handle that is set never changes again.
C1_LoadedOnce ==
  /\ [](/\ os.loads <= 1
        /\ (\E t \in Loaders : gl[t].load /\ Returned(t)) => os.loads = 1
        /\ \A t \in Loaders :
             gl[t].pc = "store_handle" => shared_library_handle = NULL)
  /\ [][shared_library_handle # NULL
          => shared_library_handle' = shared_library_handle]_vars

\* Every loader asked for the load and has returned the one handle.
C1_Witness ==
  /\ \A t \in Loaders : /\ gl[t].pc = "done" /\ gl[t].load
                         /\ gl[t].ret_handle = shared_library_handle
  /\ shared_library_handle # NULL
  /\ os.loads = 1

\* C2: a call of get_shared_library that returns a handle returns with it the
\* path that handle was loaded from, never NULL.
C2_HandleWithPath ==
  \A t \in Loaders :
    (Returned(t) /\ gl[t].ret_handle # NULL)
      => (gl[t].ret_path # NULL /\ DllLoad(gl[t].ret_path) = gl[t].ret_handle)

\* C3: once initialize_globals has returned, without native-library mode
\* _compiler_runtime and _java_runtime are the one JVMCIRuntime(0), with it
\* they are JVMCIRuntime(0) and JVMCIRuntime(-1), two objects; no later step
\* changes that.
C3_Arrangement ==
  GlobalsDone =>
    /\ compiler_runtime = 1
    /\ runtimes[compiler_runtime].id = 0
    /\ IF UseJVMCINativeLibrary
       THEN /\ java_runtime = 2
            /\ Len(runtimes) = 2
            /\ runtimes[java_runtime].id = -1
       ELSE /\ java_runtime = compiler_runtime
            /\ Len(runtimes) = 1

\* Two runtimes, after initialize_compiler, two shutdown() calls and a
\* do_unloading.
C3_Witness ==
  /\ ig.pc = "compiler_done" /\ UseJVMCINativeLibrary
  /\ java_runtime # compiler_runtime
  /\ sd.pc = "idle" /\ sd.late >= 2
  /\ last.op = "do_unloading" /\ last.late

\* The runtimes one shutdown() call has to shut down, in order.
DistinctRuntimes ==
  IF java_runtime = compiler_runtime
  THEN <<compiler_runtime>> ELSE <<java_runtime, compiler_runtime>>

\* C4: a shutdown() call entered after initialize_globals has returned shuts
\* each distinct runtime down exactly once: the one aliased runtime once, or
\* the java runtime and then the compiler runtime.
C4_ShutdownOnce ==
  (sd.pc = "idle" /\ sd.late >= 1) =>
    /\ sd.shut = DistinctRuntimes
    /\ sd.calls = 1 =>
         \A r \in DOMAIN runtimes : runtimes[r].shutdowns = 1

\* One shutdown() call has returned with a single, aliased runtime.
C4_Witness ==
  /\ sd.pc = "idle" /\ sd.calls = 1 /\ sd.late = 1
  /\ ~UseJVMCINativeLibrary /\ java_runtime = compiler_runtime
  /\ runtimes[compiler_runtime].shutdowns = 1

\* C5 as stated: after two shutdown() calls no runtime has been shut down
\* more than once.
C5_SecondCallShutsNothing ==
  (sd.pc = "idle" /\ sd.calls >= 2) =>
    \A r \in DOMAIN runtimes : runtimes[r].shutdowns <= 1

\* C5, amended: _in_shutdown is already true when a second shutdown() call
\* is entered, and shutdown() does not test it: when every call was entered
\* after initialize_globals had returned, each call has shut every runtime
\* down once, so that after two calls each runtime has been shut down twice.
C5_EachCallShutsAgain ==
  /\ sd.calls >= 2 => in_shutdown
  /\ (sd.pc = "idle" /\ sd.late = sd.calls) =>
       \A r \in DOMAIN runtimes : runtimes[r].shutdowns = sd.calls

\* Two shutdown() calls have returned and the aliased runtime was shut down
\* twice.
C5_Witness ==
  /\ sd.pc = "idle" /\ sd.calls = 2 /\ sd.late = 2
  /\ java_runtime = compiler_runtime
  /\ runtimes[compiler_runtime].shutdowns = 2

\* C6: shutdown() holds JVMCI_lock while it sets _in_shutdown and logs, has
\* released it before it shuts a runtime down, and in dual-runtime mode shuts
\* the java-role runtime (id -1) down before the compiler-role runtime
\* (id 0); whenever a runtime's shutdown has begun _in_shutdown is true.
C6_ShutdownPhases ==
  /\ (\E r \in DOMAIN runtimes : runtimes[r].shutdowns > 0) => in_shutdown
  /\ sd.pc \in {"flag", "event", "log", "trace", "unlock"} =>
       JVMCI_lock = ShutdownThread
  /\ sd.pc \in {"read_java", "compare", "java", "compiler"} =>
       (JVMCI_lock # ShutdownThread /\ in_shutdown)
  /\ (UseJVMCINativeLibrary /\ sd.shut # <<>>) =>
       /\ runtimes[sd.shut[1]].id = -1
       /\ Len(sd.shut) = 2 => runtimes[sd.shut[2]].id = 0

\* C7: after initialize_globals has returned, metadata_do and
\* do_unloading(true) each go to every distinct runtime's handle table once,
\* the java runtime's first; do_unloading(false) goes to none.
C7_BridgeOnce ==
  /\ (last.op = "metadata_do" /\ last.late) => last.touched = DistinctRuntimes
  /\ (last.op = "do_unloading" /\ last.a = 1 /\ last.late) =>
       last.touched = DistinctRuntimes
  /\ (last.op = "do_unloading" /\ last.a = 0) => last.touched = <<>>

\* metadata_do has gone to the table of the single, aliased runtime.
C7_Witness ==
  /\ last.op = "metadata_do" /\ last.late
  /\ ~UseJVMCINativeLibrary /\ java_runtime = compiler_runtime
  /\ last.touched = <<java_runtime>>

\* The channel an event call at a level is to append to.
ChannelFor(level) ==
  IF LogEvents /\ JVMCIEventLogLevel >= level
  THEN IF level = 1 THEN "events" ELSE "verbose"
  ELSE "none"

\* C8 as stated: an event call at level L appends to the log exactly when
\* LogEvents is set and JVMCIEventLogLevel >= L (to _events for L = 1, to
\* _verbose_events otherwise) and prints a trace line exactly when
\* JVMCITraceLevel >= L.
C8_EventGatesAlways ==
  last.op = "event" =>
    /\ last.logged = ChannelFor(last.a)
    /\ last.traced = (JVMCITraceLevel >= last.a)

\* C8, amended: the same, for an event call that returns; a call whose log
\* gate passes while the selected channel is NULL ends in the guarantee and
\* neither appends nor prints.
C8_EventGates ==
  /\ (last.op = "event" /\ Running) =>
       /\ last.logged = ChannelFor(last.a)
       /\ last.traced = (JVMCITraceLevel >= last.a)
  /\ (last.op = "event" /\ ~Running) =>
       /\ ChannelFor(last.a) # "none"
       /\ last.logged = "none" /\ ~last.traced

\* An event call has appended to the verbose log and printed nothing.
C8_Witness ==
  /\ last.op = "event" /\ Running
  /\ last.logged = "verbose" /\ ~last.traced
  /\ verbose_events.n = 1 /\ tty = 0

RECURSIVE Pow10(_)
Pow10(k) == IF k = 0 THEN 1 ELSE 10 * Pow10(k - 1)
Min(a, b) == IF a <= b THEN a ELSE b

\* C9: once initialize_globals has built the logs: with LogEvents and
\* JVMCIEventLogLevel >= 2 both exist and the verbose one has
\* LogEventsBufferEntries * 10^(min(level, max_EventLog_level) - 1) entries;
\* at level 1 only _events exists; without LogEvents or at level 0 neither.
C9_VerboseCapacity ==
  ig.pc \notin {"start", "verbose"} =>
    IF LogEvents /\ JVMCIEventLogLevel >= 2
    THEN /\ events.live /\ verbose_events.live
         /\ verbose_events.cap =
              LogEventsBufferEntries
                * Pow10(Min(JVMCIEventLogLevel, max_EventLog_level) - 1)
    ELSE IF LogEvents /\ JVMCIEventLogLevel = 1
    THEN events.live /\ ~verbose_events.live
    ELSE ~events.live /\ ~verbose_events.live

\* The verbose log of a level above max_EventLog_level, with the capped size.
C9_Witness ==
  /\ GlobalsDone /\ LogEvents
  /\ JVMCIEventLogLevel > max_EventLog_level
  /\ LogEventsBufferEntries = 2
  /\ verbose_events.live /\ verbose_events.cap = 2000

\* The compile state a thread's task blocks on, from the table of threads.
BoundState(thread) == IF thread > 3 THEN thread - 3 ELSE NULL

\* C10: compilation_tick adds one tick to the blocking compile state of the
\* compiler thread's task and to no other; for a thread that is no compiler
\* thread, has no task, or whose task has no blocking state, no counter
\* changes; the thread passed in is returned.
C10_TickExactlyOne ==
  last.op = "compilation_tick" =>
    /\ last.ret = last.a
    /\ last.touched =
         [s \in 1 .. Len(ticks) |-> IF s = BoundState(last.a) THEN 1 ELSE 0]

\* Both compile states have been ticked once, the second one last.
C10_Witness ==
  /\ last.op = "compilation_tick" /\ last.a = 5 /\ last.ret = 5
  /\ last.touched = <<0, 1>>
  /\ ticks = <<1, 1>>

\* C11: the lifecycle flags are monotonic.  No step of initialize_globals,
\* initialize_compiler, shutdown (repeated or not) or of the compiler takes
\* _in_shutdown or _is_initialized from true to false, and in_shutdown() and
\* is_compiler_initialized() return the flag as it is at the call; so once
\* either has returned true it returns true in every later state.
C11_FlagsMonotonic ==
  [][/\ in_shutdown => in_shutdown'
     /\ is_initialized => is_initialized'
     /\ (last' # last /\ last'.op = "in_shutdown")
          => last'.ret = BoolArg(in_shutdown')
     /\ (last' # last /\ last'.op = "is_compiler_initialized")
          => last'.ret = BoolArg(is_initialized')]_vars

\* C11 witness: after the compiler is ready and a second shutdown has
\* returned, in_shutdown() returns true with both flags still set.
C11_Witness ==
  /\ sd.calls = 2 /\ sd.pc = "idle"
  /\ in_shutdown /\ is_initialized
  /\ last.op = "in_shutdown" /\ last.ret = 1

\* C12: a failure on the slow path of get_shared_library is fatal and
\* publishes nothing.  When the process has ended in the fatal() of line 77
\* or 82, the handle and the path are NULL, no thread holds or was returned a
\* handle, nothing was logged or traced, and the resolve was tried once and
\* the load at most once; while the process runs every resolve was followed
\* by a load, or is about to be by the thread that made it, and every load
\* produced a handle, so no failure was survived.
C12_LoadFailureFatal ==
  /\ term \in {"fatal_locate", "fatal_load"} =>
       /\ shared_library_handle = NULL /\ shared_library_path = NULL
       /\ \A t \in Loaders : gl[t].handle = NULL /\ gl[t].ret_handle = NULL
       /\ events.n = 0 /\ verbose_events.n = 0 /\ tty = 0
       /\ os.locates = 1
       /\ os.loads = IF term = "fatal_load" THEN 1 ELSE 0
  /\ Running =>
       /\ \/ os.locates = os.loads
             /\ \A t \in Loaders : gl[t].pc # "dll_load"
          \/ os.locates = os.loads + 1
             /\ \E t \in Loaders : gl[t].pc = "dll_load" /\ gl[t].path # NULL
       /\ os.loads > 0 => \E t \in Loaders : gl[t].handle # NULL

\* C12 witness: the load failed after a successful resolve, while the other
\* loader waits for JVMCI_lock.
C12_Witness ==
  /\ term = "fatal_load" /\ os.locates = 1 /\ os.loads = 1
  /\ \E t \in Loaders : gl[t].pc = "dll_load" /\ JVMCI_lock = t
  /\ \E t \in Loaders : gl[t].pc = "lock"

\* C13: initialize_compiler.  With JVMCILibDumpJNIConfig the call ends the
\* process in the dump: it never returns and no runtime is ever asked for its
\* compiler.  Without the flag it never dumps, and once it has returned,
\* with or without a pending exception, the compiler-role runtime has been
\* asked for its compiler exactly once and no other runtime has been asked;
\* before the call no runtime has been asked.
C13_InitializeCompiler ==
  /\ JVMCILibDumpJNIConfig =>
       /\ ig.pc # "compiler_done"
       /\ \A r \in DOMAIN runtimes : runtimes[r].getCompiler = 0
  /\ term = "dumped" => JVMCILibDumpJNIConfig /\ ig.pc = "globals_done"
  /\ ig.pc = "compiler_done" =>
       /\ term # "dumped"
       /\ compiler_runtime # NULL
       /\ runtimes[compiler_runtime].getCompiler = 1
       /\ \A r \in DOMAIN runtimes :
            r # compiler_runtime => runtimes[r].getCompiler = 0
  /\ ig.pc # "compiler_done" =>
       \A r \in DOMAIN runtimes : runtimes[r].getCompiler = 0

\* C13 witness: in dual-runtime mode call_getCompiler has failed; the
\* exception is pending at the caller and the compiler-role runtime was asked
\* once, the java-role runtime never.
C13_Witness ==
  /\ ig.pc = "compiler_done" /\ ig.exc
  /\ java_runtime # NULL /\ java_runtime # compiler_runtime
  /\ runtimes[compiler_runtime].getCompiler = 1
  /\ runtimes[java_runtime].getCompiler = 0

\* C14: can_initialize_JVMCI.  Every call returns whether the system class
\* loader exists at the call: false before it exists, true after.  The loader
\* is never taken away, so in the sequence of results of one process a true
\* is never followed by a false, and while the loader does not exist every
\* result so far is false.
C14_GateFollowsLoader ==
  /\ [](/\ \A i, j \in DOMAIN gate : (i < j /\ gate[i] = 1) => gate[j] = 1
        /\ vm.java_system_loader = NULL => \A i \in DOMAIN gate : gate[i] = 0)
  /\ [][gate' # gate =>
          /\ Len(gate') = Len(gate) + 1
          /\ gate'[Len(gate')] = BoolArg(vm.java_system_loader # NULL)
          /\ last'.op = "can_initialize_JVMCI"
          /\ last'.ret = gate'[Len(gate')]]_vars

\* C14 witness: a call before the system class loader existed returned false
\* and two calls after it returned true.
C14_Witness ==
  /\ gate = <<0, 1, 1>>
  /\ vm.java_system_loader # NULL /\ vm.module_initialized
  /\ last.op = "can_initialize_JVMCI" /\ last.ret = 1

\* Loader t is in a call that has read the handle at line 60 and either
\* found one or was not asked to load.
OnFastPath(t) ==
  /\ gl[t].pc \notin {"idle", "lock", "read_handle"}
  /\ (gl[t].sl_handle # NULL \/ ~gl[t].load)

\* C15: the fast path of get_shared_library has no side effects.  A call with
\* load = false, or one that read a handle at line 60, never reaches the
\* resolve, the load, the stores or the event; a caller with load = false
\* never holds JVMCI_lock; the steps of the fast path leave the handle, the
\* path, the logs, the trace output, the counts of resolves and loads and the
\* lock as they are; and the call returns the handle read at line 60 and the
\* path read at line 62, each of which is empty or the published value.
C15_FastPathPure ==
  /\ [](\A t \in Loaders :
          /\ OnFastPath(t) => gl[t].pc \in {"fast_return", "return", "done"}
          /\ ~gl[t].load => JVMCI_lock # t
          /\ (OnFastPath(t) /\ gl[t].pc \in {"return", "done"}) =>
               /\ gl[t].ret_handle = gl[t].sl_handle
               /\ gl[t].ret_handle \in {NULL, shared_library_handle}
               /\ gl[t].ret_path \in {NULL, shared_library_path})
  /\ [][\A t \in Loaders :
          (gl'[t] # gl[t] /\ gl'[t].pc \in {"fast_return", "return"}
             /\ gl[t].pc \in {"read_handle", "fast_return"}) =>
            /\ UNCHANGED <<shared_library_handle, shared_library_path, events,
                           verbose_events, tty, os, term, JVMCI_lock>>
            /\ gl[t].pc = "read_handle" =>
                 gl'[t].sl_handle = shared_library_handle
            /\ gl[t].pc = "fast_return" =>
                 /\ gl'[t].ret_handle = gl[t].sl_handle
                 /\ gl'[t].ret_path = shared_library_path]_vars

\* C15 witness: after one loader has loaded the library, the other has
\* called with load = true, found the handle at line 60 and returned it with
\* the path; the library was loaded once.
C15_Witness ==
  \E t \in Loaders :
    /\ gl[t].load /\ gl[t].sl_handle # NULL /\ gl[t].pc = "done"
    /\ gl[t].ret_handle = shared_library_handle
    /\ gl[t].ret_path = shared_library_path /\ gl[t].ret_path # NULL
    /\ gl[t].handle = NULL
    /\ os.loads = 1

\* C16: a log call whose gate passes (LogEvents and JVMCIEventLogLevel >=
\* level) while the channel its level selects (_events for level 1,
\* _verbose_events otherwise) has not been constructed, so that the pointer
\* vlog loads at line 186 is NULL, ends in the guarantee of line 187 and
\* appends nothing: the call never gets past line 187, its next step ends the
\* process with nothing logged and nothing printed, and a log that was not
\* constructed has no entry.  The guarantee fails for no other call: the call
\* it ended had passed the gate and loaded a NULL pointer.
C16_MissingChannelFails ==
  /\ [](/\ ev.log = "null" => ev.pc = "log"
        /\ term = "guarantee" =>
             /\ last.op = "event" /\ last.a = ev.level
             /\ ev.log = "null" /\ ChannelFor(last.a) # "none"
             /\ last.logged = "none" /\ ~last.traced
        /\ ~events.live => events.n = 0
        /\ ~verbose_events.live => verbose_events.n = 0)
  /\ [][/\ (ev.pc = "idle" /\ ev'.pc # "idle") =>
            ((ev'.log = "null")
               = \/ ChannelFor(ev'.level) = "events" /\ ~events.live
                 \/ ChannelFor(ev'.level) = "verbose" /\ ~verbose_events.live)
        /\ (ev.pc = "log" /\ ev.log = "null" /\ ig' = ig) =>
            /\ term' = "guarantee"
            /\ UNCHANGED <<events, verbose_events, tty>>]_vars

\* C16 witness: initialize_globals has constructed _events and not yet
\* _verbose_events when an event of level 2 passes the gate and loads the
\* NULL pointer; the process ends in the guarantee with nothing appended.
C16_Witness ==
  /\ term = "guarantee" /\ ig.pc = "verbose"
  /\ last.op = "event" /\ last.a = 2 /\ last.logged = "none"
  /\ ev.log = "null"
  /\ events.live /\ ~verbose_events.live /\ verbose_events.n = 0

\* C17: once initialize_globals has returned, no log call reaches the
\* guarantee of line 187.  For every level L >= 1 whose gate (LogEvents and
\* JVMCIEventLogLevel >= L) passes, the channel selected for L has been
\* constructed; an event call entered after initialize_globals has returned
\* returns, having appended to the channel its level selects.
C17_NoGuaranteeAfterInit ==
  /\ GlobalsDone =>
       \A L \in 1 .. (MaxLogLevel + 1) :
         /\ ~VlogFails(VlogLoad(L))
         /\ (LogEvents /\ JVMCIEventLogLevel >= L) =>
              IF L = 1 THEN events.live ELSE verbose_events.live
  /\ (last.op = "event" /\ last.late) =>
       /\ term # "guarantee"
       /\ last.logged = ChannelFor(last.a)

\* C17 witness: with JVMCIEventLogLevel = 2, the lowest level that selects
\* the verbose channel, an event of level 2 made after initialize_globals has
\* been appended to _verbose_events.
C17_Witness ==
  /\ GlobalsDone /\ Running
  /\ LogEvents /\ JVMCIEventLogLevel = 2
  /\ last.op = "event" /\ last.late /\ last.a = 2
  /\ last.logged = "verbose" /\ verbose_events.n = 1

\* C18 as stated: in every interleaving of initialize_globals on one thread
\* and shutdown() on another, shutdown never calls JVMCIRuntime::shutdown
\* through a NULL java runtime.
C18_JavaShutdownNotNull == ~sd.null_call

\* C19 as stated: shutdown() called before initialize_globals has done
\* anything, with both runtimes NULL, completes normally whatever the logging
\* flags are: it does not end in the guarantee of its level-1 event, and once
\* it has returned _in_shutdown is set and no runtime was shut down.
C19_EarlyShutdownCompletes ==
  (ig.pc = "start" /\ sd.calls >= 1) =>
    /\ term # "guarantee"
    /\ sd.pc = "idle" => (in_shutdown /\ sd.shut = <<>> /\ ~sd.null_call)

\* C20: the lock under fair scheduling.  JVMCI_lock is not taken by the
\* thread that holds it, is not held by a thread outside a call, and is not
\* held by the shutdown thread from line 171 on, where the runtimes are shut
\* down; a thread inside a call can take a step or the process has ended;
\* and every call of get_shared_library and of shutdown that was entered
\* returns, unless the process ends first (fatal, guarantee, crash).
C20_LockLiveness ==
  /\ [](/\ \A t \in Loaders :
             /\ JVMCI_lock = t => gl[t].pc \notin {"idle", "lock", "done"}
             /\ gl[t].pc \in {"load", "dll_load", "store_handle", "store_path",
                               "event", "log", "trace", "slow_return"}
                  => JVMCI_lock = t
        /\ JVMCI_lock = ShutdownThread
             => sd.pc \in {"flag", "event", "log", "trace", "unlock"}
        /\ sd.pc \in {"flag", "event", "log", "trace", "unlock"}
             => JVMCI_lock = ShutdownThread
        /\ (Running /\ (sd.pc # "idle"
                         \/ \E t \in Loaders : gl[t].pc \notin {"idle", "done"}))
             => ENABLED (ShutdownSteps \/ \E t \in Loaders : LoaderSteps(t)))
  /\ \A t \in Loaders :
       (gl[t].pc # "idle") ~> (gl[t].pc = "done" \/ ~Running)
  /\ (sd.pc # "idle") ~> (sd.pc = "idle" \/ ~Running)

\* C20 witness: both loaders asked for the load and have returned, one having
\* loaded the library, and the second call of shutdown has returned; the
\* process runs and the lock is free.
C20_Witness ==
  /\ Running /\ JVMCI_lock = NULL
  /\ \A t \in Loaders : gl[t].load /\ gl[t].pc = "done"
  /\ os.loads = 1
  /\ sd.calls = 2 /\ sd.pc = "idle" /\ in_shutdown
====
